---- MODULE Spec2Model ----
(***************************************************************************)
(* Model of filter_ips.py: the network optimizer (collapse_networks), the  *)
(* per-worker index (_init_worker), the batch classifier                   *)
(* (_process_ip_batch), the parallel dispatcher with its sequential        *)
(* fallback (process_single_country) and the country orchestrator          *)
(* (filter_multi_country_ips).                                             *)
(*                                                                         *)
(* Strings are sequences of one-character strings.  Addresses are scaled   *)
(* down from 32 bits to AddrBits bits and are written as one decimal       *)
(* group ("3", "2/1"); the second address family is written with a         *)
(* leading colon (":3", ":2/1").  A network is a record                    *)
(* [ver, addr, len]; it covers the addresses addr .. addr + 2^(bits-len)-1.*)
(***************************************************************************)
EXTENDS Integers, Sequences, FiniteSets, Bags, TLC

\* Width of an address in bits (32 in the program, scaled down).
AddrBits == 3

\* Longest network list handed to collapse_networks in SpecCollapse.
MaxNets == 3

(***************************************************************************)
(* Strings                                                                 *)
(***************************************************************************)

DigitChars == <<"0", "1", "2", "3", "4", "5", "6", "7", "8", "9">>

IsDigit(c) == \E i \in 1..Len(DigitChars) : DigitChars[i] = c

DigitVal(c) == (CHOOSE i \in 1..Len(DigitChars) : DigitChars[i] = c) - 1

\* Code point of a character, for the order Python's sorted() puts on str.
CharCode(c) ==
    CASE c = " " -> 32
      [] c = "/" -> 47
      [] IsDigit(c) -> 48 + DigitVal(c)
      [] c = ":" -> 58
      [] OTHER -> 120

RECURSIVE lstrip(_)
lstrip(s) == IF s # <<>> /\ Head(s) = " " THEN lstrip(Tail(s)) ELSE s

RECURSIVE rstrip(_)
rstrip(s) ==
    IF s # <<>> /\ s[Len(s)] = " " THEN rstrip(SubSeq(s, 1, Len(s) - 1)) ELSE s

\* str.strip()
strip(s) == rstrip(lstrip(s))

\* '/' in s
HasSlash(s) == \E i \in 1..Len(s) : s[i] = "/"

\* s.split('/')
RECURSIVE split_slash(_)
split_slash(s) ==
    IF ~HasSlash(s) THEN <<s>>
    ELSE LET i == CHOOSE k \in 1..Len(s) :
                     s[k] = "/" /\ \A j \in 1..(k - 1) : s[j] # "/"
         IN <<SubSeq(s, 1, i - 1)>> \o split_slash(SubSeq(s, i + 1, Len(s)))

AllDigits(s) == s # <<>> /\ \A i \in 1..Len(s) : IsDigit(s[i])

\* int(s, 10) of a string of decimal digits
RECURSIVE int_of(_)
int_of(s) ==
    IF s = <<>> THEN 0
    ELSE 10 * int_of(SubSeq(s, 1, Len(s) - 1)) + DigitVal(s[Len(s)])

\* str(n) of a natural number
RECURSIVE str_of_int(_)
str_of_int(n) ==
    IF n < 10 THEN <<DigitChars[n + 1]>>
    ELSE str_of_int(n \div 10) \o <<DigitChars[(n % 10) + 1]>>

(***************************************************************************)
(* ipaddress: addresses and networks                                       *)
(***************************************************************************)

AllOnes == 2^AddrBits - 1

Failed == [ok |-> FALSE, ver |-> 0, addr |-> 0, len |-> 0]

\* _parse_octet: decimal digits, at most 3 of them, no leading zero, in range
parse_octet(s) ==
    IF AllDigits(s) /\ Len(s) <= 3 /\ (s = <<"0">> \/ s[1] # "0")
       /\ int_of(s) <= AllOnes
    THEN [ok |-> TRUE, val |-> int_of(s)]
    ELSE [ok |-> FALSE, val |-> 0]

\* ipaddress.ip_address(s): the first family, else the second, else ValueError
ip_address(s) ==
    IF parse_octet(s).ok
    THEN [ok |-> TRUE, ver |-> 4, addr |-> parse_octet(s).val, len |-> AddrBits]
    ELSE IF s # <<>> /\ s[1] = ":" /\ parse_octet(Tail(s)).ok
    THEN [ok |-> TRUE, ver |-> 6, addr |-> parse_octet(Tail(s)).val, len |-> AddrBits]
    ELSE Failed

\* _prefix_from_prefix_string
prefix_from_prefix_string(s) ==
    IF AllDigits(s) /\ int_of(s) <= AddrBits
    THEN [ok |-> TRUE, val |-> int_of(s)]
    ELSE [ok |-> FALSE, val |-> 0]

\* packed & netmask: the address with its host bits cleared
MaskAddr(addr, len) == addr - (addr % 2^(AddrBits - len))

\* ipaddress.ip_network(s, strict): ok = FALSE stands for the ValueError
ip_network(s, strict) ==
    LET parts == split_slash(s)
        a     == ip_address(parts[1])
        p     == IF Len(parts) = 2 THEN prefix_from_prefix_string(parts[2])
                 ELSE [ok |-> Len(parts) = 1, val |-> AddrBits]
    IN IF Len(parts) > 2 \/ ~a.ok \/ ~p.ok THEN Failed
       ELSE IF MaskAddr(a.addr, p.val) # a.addr /\ strict THEN Failed
       ELSE [ok |-> TRUE, ver |-> a.ver, addr |-> MaskAddr(a.addr, p.val),
             len |-> p.val]

Net(ver, addr, len) == [ver |-> ver, addr |-> addr, len |-> len]

\* str(address)
str_address(ver, addr) ==
    IF ver = 4 THEN str_of_int(addr) ELSE <<":">> \o str_of_int(addr)

\* str(network)
str_network(n) == str_address(n.ver, n.addr) \o <<"/">> \o str_of_int(n.len)

network_address(n) == n.addr

broadcast_address(n) == n.addr + 2^(AddrBits - n.len) - 1

\* the addresses a network covers, tagged with their family
Covered(n) == {<<n.ver, a>> : a \in n.addr..broadcast_address(n)}

RECURSIVE CoveredBySeq(_)
CoveredBySeq(nets) ==
    IF nets = <<>> THEN {} ELSE Covered(Head(nets)) \cup CoveredBySeq(Tail(nets))

\* _BaseNetwork.supernet()
supernet(n) ==
    IF n.len = 0 THEN n
    ELSE Net(n.ver, n.addr - (n.addr % 2^(AddrBits - n.len + 1)), n.len - 1)

\* int.bit_length()
RECURSIVE bit_length(_)
bit_length(n) == IF n = 0 THEN 0 ELSE 1 + bit_length(n \div 2)

\* _count_righthand_zero_bits(number, bits)
RECURSIVE count_righthand_zero_bits(_, _)
count_righthand_zero_bits(number, bits) ==
    IF number = 0 \/ bits = 0 THEN bits
    ELSE IF number % 2 = 1 THEN 0
    ELSE 1 + count_righthand_zero_bits(number \div 2, bits - 1)

Min(a, b) == IF a <= b THEN a ELSE b

Max(a, b) == IF a >= b THEN a ELSE b

\* summarize_address_range(first, last), on the integers of one family
RECURSIVE summarize_address_range(_, _, _)
summarize_address_range(ver, first_int, last_int) ==
    IF first_int > last_int THEN <<>>
    ELSE LET nbits == Min(count_righthand_zero_bits(first_int, AddrBits),
                          bit_length(last_int - first_int + 1) - 1)
             next  == first_int + 2^nbits
         IN <<Net(ver, first_int, AddrBits - nbits)>> \o
            (IF next - 1 = AllOnes THEN <<>>
             ELSE summarize_address_range(ver, next, last_int))

\* sorted(set(ips)): the integers of a set in ascending order
RECURSIVE SortInts(_)
SortInts(S) ==
    IF S = {} THEN <<>>
    ELSE LET m == CHOOSE x \in S : \A y \in S : x <= y
         IN <<m>> \o SortInts(S \ {m})

\* _find_address_range over a sorted sequence, each run summarized at once
RECURSIVE SummarizeRuns(_, _, _, _)
SummarizeRuns(ver, ips, first, last) ==
    IF ips = <<>> THEN summarize_address_range(ver, first, last)
    ELSE IF Head(ips) # last + 1
    THEN summarize_address_range(ver, first, last) \o
         SummarizeRuns(ver, Tail(ips), Head(ips), Head(ips))
    ELSE SummarizeRuns(ver, Tail(ips), first, Head(ips))

\* MergeLoop with the merged supernet stored in the dict in place of the two
\* halves instead of being pushed back on to_merge for another round.
RECURSIVE MergeLoop_noCascade(_, _)
MergeLoop_noCascade(to_merge, subnets) ==
    IF to_merge = <<>> THEN subnets
    ELSE LET net      == to_merge[Len(to_merge)]
             rest     == SubSeq(to_merge, 1, Len(to_merge) - 1)
             sup      == supernet(net)
             existing == {e \in subnets : e.key = sup}
         IN IF existing = {}
            THEN MergeLoop_noCascade(rest, subnets \cup {[key |-> sup, val |-> net]})
            ELSE IF \E e \in existing : e.val # net
            THEN MergeLoop_noCascade(rest,
                     (subnets \ existing) \cup {[key |-> sup, val |-> sup]})
            ELSE MergeLoop_noCascade(rest, subnets)

\* The first loop of _collapse_addresses_internal.  to_merge is popped from
\* its end; subnets is the dict, a set of records [key, val].
RECURSIVE MergeLoop(_, _)
MergeLoop(to_merge, subnets) ==
    IF to_merge = <<>> THEN subnets
    ELSE LET net      == to_merge[Len(to_merge)]
             rest     == SubSeq(to_merge, 1, Len(to_merge) - 1)
             sup      == supernet(net)
             existing == {e \in subnets : e.key = sup}
         IN IF existing = {}
            THEN MergeLoop(rest, subnets \cup {[key |-> sup, val |-> net]})
            ELSE IF \E e \in existing : e.val # net
            THEN MergeLoop(rest \o <<sup>>, subnets \ existing)
            ELSE MergeLoop(rest, subnets)

\* _BaseNetwork.__lt__ within one family
NetLess(a, b) ==
    IF a.addr # b.addr THEN a.addr < b.addr ELSE a.len < b.len

\* sorted(subnets.values())
RECURSIVE SortNets(_)
SortNets(S) ==
    IF S = {} THEN <<>>
    ELSE LET m == CHOOSE x \in S : \A y \in S \ {x} : NetLess(x, y)
         IN <<m>> \o SortNets(S \ {m})

\* The second loop of _collapse_addresses_internal: skip subsumed subnets.
\* SkipSubsumed that yields every network.
SkipSubsumed_none(nets, last) == nets

\* last is <<>> for Python's None, else the one network yielded last.
RECURSIVE SkipSubsumed(_, _)
SkipSubsumed(nets, last) ==
    IF nets = <<>> THEN <<>>
    ELSE IF last # <<>> /\ broadcast_address(last[1]) >= broadcast_address(Head(nets))
    THEN SkipSubsumed(Tail(nets), last)
    ELSE <<Head(nets)>> \o SkipSubsumed(Tail(nets), <<Head(nets)>>)

Range(s) == {s[i] : i \in 1..Len(s)}

Versions(nets) == {nets[i].ver : i \in 1..Len(nets)}

\* ipaddress.collapse_addresses(addresses): raised = TRUE stands for the
\* TypeError raised when two families meet, in the split loop (an entry
\* against the last one of its list) or in sorted(subnets.values()).
collapse_addresses(addresses) ==
    LET ips    == SelectSeq(addresses, LAMBDA n : n.len = AddrBits)
        nets   == SelectSeq(addresses, LAMBDA n : n.len # AddrBits)
        sorted == SortInts({ips[i].addr : i \in 1..Len(ips)})
        addrs  == IF sorted = <<>> THEN <<>>
                  ELSE SummarizeRuns(ips[1].ver, Tail(sorted), Head(sorted),
                                     Head(sorted))
        values == {e.val : e \in MergeLoop(addrs \o nets, {})}
    IN IF \/ Cardinality(Versions(ips)) > 1
          \/ Cardinality(Versions(nets)) > 1
          \/ Cardinality({v.ver : v \in values}) > 1
       THEN [raised |-> TRUE, out |-> <<>>]
       ELSE [raised |-> FALSE, out |-> SkipSubsumed(SortNets(values), <<>>)]

RECURSIVE MapSeq(_, _)
MapSeq(Op(_), s) ==
    IF s = <<>> THEN <<>> ELSE <<Op(Head(s))>> \o MapSeq(Op, Tail(s))

\* network_objects parsing with strict=False.
network_objects_nonstrict(network_strs) ==
    LET parsed == MapSeq(LAMBDA s : ip_network(strip(s), FALSE), network_strs)
        valid  == SelectSeq(parsed, LAMBDA p : p.ok)
    IN MapSeq(LAMBDA p : Net(p.ver, p.addr, p.len), valid)

\* The try/except loop of collapse_networks: the networks that parse.
network_objects(network_strs) ==
    LET parsed == MapSeq(LAMBDA s : ip_network(strip(s), TRUE), network_strs)
        valid  == SelectSeq(parsed, LAMBDA p : p.ok)
    IN MapSeq(LAMBDA p : Net(p.ver, p.addr, p.len), valid)

\* collapse_networks whose reduction percentage divides by the number of
\* valid networks unguarded: ZeroDivisionError when none is valid.
collapse_networks_divzero(network_strs) ==
    LET collapsed == collapse_addresses(network_objects(network_strs))
    IN [raised |-> collapsed.raised \/ network_objects(network_strs) = <<>>,
        out    |-> MapSeq(str_network, collapsed.out)]

\* collapse_networks(network_strs)
collapse_networks(network_strs) ==
    LET collapsed == collapse_addresses(network_objects(network_strs))
    IN [raised |-> collapsed.raised,
        out    |-> MapSeq(str_network, collapsed.out)]

(***************************************************************************)
(* SubnetTree: the index                                                   *)
(***************************************************************************)

\* subnet_tree[cidr_string] = True.  The tree is the set of networks added;
\* a string that is no network raises, and both callers skip it.
SubnetTree_insert(tree, cidr_string) ==
    LET n == ip_network(cidr_string, FALSE)
    IN IF n.ok THEN tree \cup {Net(n.ver, n.addr, n.len)} ELSE tree

\* ip_to_lookup in tree: some network of the tree contains the address.  A
\* string that is no address raises or is not found; both callers drop it.
SubnetTree_contains(tree, ip_to_lookup) ==
    LET a == ip_address(ip_to_lookup)
    IN a.ok /\ \E n \in tree : n.ver = a.ver /\ MaskAddr(a.addr, n.len) = n.addr

\* The loop of _init_worker (and of the fallback): every CIDR string added.
RECURSIVE build_tree(_, _)
build_tree(tree, cidr_list) ==
    IF cidr_list = <<>> THEN tree
    ELSE build_tree(SubnetTree_insert(tree, Head(cidr_list)), Tail(cidr_list))

\* _init_worker(cidr_list): the value stored in WORKER_TREE.  WORKER_TREE is
\* <<>> for Python's None, else <<tree>>.
init_worker(cidr_list) == <<build_tree({}, cidr_list)>>

(***************************************************************************)
(* The batch classifier                                                    *)
(***************************************************************************)

\* lookup_key whose except clause does not catch the parse error.
lookup_key_uncaught(cleaned_ip) ==
    IF HasSlash(cleaned_ip)
    THEN LET n == ip_network(cleaned_ip, FALSE)
         IN IF n.ok
            THEN [ok |-> TRUE, raised |-> FALSE, key |-> str_address(n.ver, n.addr)]
            ELSE [ok |-> FALSE, raised |-> TRUE, key |-> <<>>]
    ELSE [ok |-> TRUE, raised |-> FALSE, key |-> cleaned_ip]

\* lookup_key that parses a block with ip_network's default, strict=True.
lookup_key_strict(cleaned_ip) ==
    IF HasSlash(cleaned_ip)
    THEN LET n == ip_network(cleaned_ip, TRUE)
         IN IF n.ok
            THEN [ok |-> TRUE, raised |-> FALSE, key |-> str_address(n.ver, n.addr)]
            ELSE [ok |-> FALSE, raised |-> FALSE, key |-> <<>>]
    ELSE [ok |-> TRUE, raised |-> FALSE, key |-> cleaned_ip]

\* The first try block of the loop of _process_ip_batch: the string to look
\* up.  ok = FALSE is the except clause's continue; raised = TRUE would be an
\* exception that leaves the function.
lookup_key(cleaned_ip) ==
    IF HasSlash(cleaned_ip)
    THEN LET n == ip_network(cleaned_ip, FALSE)
         IN IF n.ok
            THEN [ok |-> TRUE, raised |-> FALSE, key |-> str_address(n.ver, n.addr)]
            ELSE [ok |-> FALSE, raised |-> FALSE, key |-> <<>>]
    ELSE [ok |-> TRUE, raised |-> FALSE, key |-> cleaned_ip]

\* emitted that appends the looked-up address in place of the entry.
emitted_reformatted(cleaned_ip, ip_to_lookup) == ip_to_lookup

\* country_matched_ips.append(cleaned_ip): the string put in the result
emitted(cleaned_ip, ip_to_lookup) == cleaned_ip

\* The for loop of _process_ip_batch over the rest of the batch, with the
\* matches collected so far.
RECURSIVE batch_loop(_, _, _)
batch_loop(tree, ip_batch, country_matched_ips) ==
    IF ip_batch = <<>> THEN [raised |-> FALSE, out |-> country_matched_ips]
    ELSE LET cleaned_ip == strip(Head(ip_batch))
             k          == lookup_key(cleaned_ip)
         IN IF cleaned_ip = <<>>
            THEN batch_loop(tree, Tail(ip_batch), country_matched_ips)
            ELSE IF k.raised THEN [raised |-> TRUE, out |-> <<>>]
            ELSE IF ~k.ok
            THEN batch_loop(tree, Tail(ip_batch), country_matched_ips)
            ELSE IF SubnetTree_contains(tree, k.key)
            THEN batch_loop(tree, Tail(ip_batch),
                            Append(country_matched_ips, emitted(cleaned_ip, k.key)))
            ELSE batch_loop(tree, Tail(ip_batch), country_matched_ips)

\* _process_ip_batch(ip_batch) in a process whose global is WORKER_TREE:
\* raised = TRUE is the RuntimeError of the safety check (or an exception of
\* the loop).
process_ip_batch(WORKER_TREE_, ip_batch) ==
    IF WORKER_TREE_ = <<>> THEN [raised |-> TRUE, out |-> <<>>]
    ELSE batch_loop(WORKER_TREE_[1], ip_batch, <<>>)

(***************************************************************************)
(* process_single_country and filter_multi_country_ips: the computations   *)
(***************************************************************************)

\* batches_per_worker = 4
batches_per_worker == 4

\* the cap of min(..., 4) on the worker count
WorkerCap == 4

\* the processes a pool can hold
Procs == 1..WorkerCap

\* optimal_workers without the cap of min(..., 4).
optimal_workers_of_uncapped(override, system_cpu_count) ==
    IF override # 0 THEN override ELSE system_cpu_count

\* optimal_workers = min(NUM_WORKERS_OVERRIDE or system_cpu_count, 4); the
\* override is 0 for Python's None.
optimal_workers_of(override, system_cpu_count) ==
    Min(IF override # 0 THEN override ELSE system_cpu_count, WorkerCap)

\* A reference row.  network is <<>> for a missing value (NaN).
Row(network, iso, name) ==
    [network |-> network, country_iso_code |-> iso, country_name |-> name]

\* geoip_dataframe[country_mask]['network'].dropna().astype(str).tolist()
country_networks_of(rows, iso_code, country_name) ==
    MapSeq(LAMBDA r : r.network,
           SelectSeq(rows, LAMBDA r :
               /\ r.country_iso_code = iso_code \/ r.country_name = country_name
               /\ r.network # <<>>))

\* batch_size computed from the worker count alone, without batches_per_worker.
batch_size_of_perWorker(total_input_ips, workers) ==
    Max(1, total_input_ips \div workers)

\* batch_size = max(1, total_input_ips // total_desired_batches)
batch_size_of(total_input_ips, workers) ==
    Max(1, total_input_ips \div (workers * batches_per_worker))

\* split_batches that stops before a last batch shorter than batch_size.
RECURSIVE split_batches_dropShort(_, _, _)
split_batches_dropShort(input_ip_list, start_idx, batch_size) ==
    IF start_idx + batch_size > Len(input_ip_list) THEN <<>>
    ELSE <<SubSeq(input_ip_list, start_idx + 1, start_idx + batch_size)>> \o
         split_batches_dropShort(input_ip_list, start_idx + batch_size, batch_size)

\* The slicing loop: for start_idx in range(0, total, batch_size), start_idx
\* counted from 0.
RECURSIVE split_batches(_, _, _)
split_batches(input_ip_list, start_idx, batch_size) ==
    IF start_idx >= Len(input_ip_list) THEN <<>>
    ELSE LET end_idx == Min(start_idx + batch_size, Len(input_ip_list))
         IN <<SubSeq(input_ip_list, start_idx + 1, end_idx)>> \o
            split_batches(input_ip_list, end_idx, batch_size)

\* The loop of the single-threaded fallback over the rest of the input; it
\* appends to filtered_ips as it stands when the loop is entered.
RECURSIVE fallback_loop(_, _, _)
fallback_loop(fallback_tree, input_ip_list, filtered_ips) ==
    IF input_ip_list = <<>> THEN filtered_ips
    ELSE LET cleaned_ip == strip(Head(input_ip_list))
             n          == ip_network(cleaned_ip, FALSE)
             ip_to_check == IF HasSlash(cleaned_ip)
                            THEN str_address(n.ver, n.addr) ELSE cleaned_ip
         IN IF cleaned_ip = <<>>
            THEN fallback_loop(fallback_tree, Tail(input_ip_list), filtered_ips)
            ELSE IF HasSlash(cleaned_ip) /\ ~n.ok
            THEN fallback_loop(fallback_tree, Tail(input_ip_list), filtered_ips)
            ELSE IF SubnetTree_contains(fallback_tree, ip_to_check)
            THEN fallback_loop(fallback_tree, Tail(input_ip_list),
                               Append(filtered_ips, cleaned_ip))
            ELSE fallback_loop(fallback_tree, Tail(input_ip_list), filtered_ips)

\* fallback that parses blocks with strict=True.
RECURSIVE fallback_loop_strict(_, _, _)
fallback_loop_strict(fallback_tree, input_ip_list, filtered_ips) ==
    IF input_ip_list = <<>> THEN filtered_ips
    ELSE LET cleaned_ip == strip(Head(input_ip_list))
             n          == ip_network(cleaned_ip, TRUE)
             ip_to_check == IF HasSlash(cleaned_ip)
                            THEN str_address(n.ver, n.addr) ELSE cleaned_ip
         IN IF cleaned_ip = <<>> \/ (HasSlash(cleaned_ip) /\ ~n.ok)
            THEN fallback_loop_strict(fallback_tree, Tail(input_ip_list), filtered_ips)
            ELSE IF SubnetTree_contains(fallback_tree, ip_to_check)
            THEN fallback_loop_strict(fallback_tree, Tail(input_ip_list),
                                      Append(filtered_ips, cleaned_ip))
            ELSE fallback_loop_strict(fallback_tree, Tail(input_ip_list),
                                      filtered_ips)

\* The except branch with fallback_loop_strict as its loop.
fallback_strict(optimized_cidrs_, input_ip_list_, filtered_ips_) ==
    fallback_loop_strict(build_tree({}, optimized_cidrs_), input_ip_list_,
                         filtered_ips_)

\* The except branch of process_single_country: the fallback tree is built
\* and the whole input list is classified.
fallback(optimized_cidrs_, input_ip_list_, filtered_ips_) ==
    fallback_loop(build_tree({}, optimized_cidrs_), input_ip_list_, filtered_ips_)

\* str < str in Python: by code points, a proper prefix first
RECURSIVE StrLess(_, _)
StrLess(a, b) ==
    IF b = <<>> THEN FALSE
    ELSE IF a = <<>> THEN TRUE
    ELSE IF Head(a) # Head(b) THEN CharCode(Head(a)) < CharCode(Head(b))
    ELSE StrLess(Tail(a), Tail(b))

\* sorted(all_filtered_ips)
RECURSIVE sorted_strs(_)
sorted_strs(S) ==
    IF S = {} THEN <<>>
    ELSE LET m == CHOOSE x \in S : \A y \in S \ {x} : StrLess(x, y)
         IN <<m>> \o sorted_strs(S \ {m})

\* set_update that keeps the last country's entries alone.
set_update_overwrite(all_filtered_ips_, filtered_ips_) == Range(filtered_ips_)

\* all_filtered_ips.update(filtered_ips)
set_update(all_filtered_ips_, filtered_ips_) ==
    all_filtered_ips_ \cup Range(filtered_ips_)

\* str.lower() of the ISO codes in use
Lower(iso) ==
    CASE iso = "US" -> "us" [] iso = "CA" -> "ca" [] OTHER -> iso

\* f"aggregated-{iso_code.lower()}-only.txt"
output_filename_of(iso_code) == <<"aggregated-", Lower(iso_code), "-only.txt">>

\* open(output_path, 'w') and the writes: the file holds the lines.
write_file(files_, name, lines) ==
    {f \in files_ : f.name # name} \cup {[name |-> name, lines |-> lines]}

\* the statistics record process_single_country returns; output_file is
\* <<>> for Python's None
Stats(config, networks_found, networks_optimized, ips_matched, output_file) ==
    [iso_code |-> config[1], country_name |-> config[2], suffix |-> config[3],
     networks_found |-> networks_found, networks_optimized |-> networks_optimized,
     ips_matched |-> ips_matched, output_file |-> output_file]

(***************************************************************************)
(* Input universes                                                         *)
(***************************************************************************)

\* Longest CIDR list an index is built from in SpecBatch.
MaxCidrs == 2

\* Longest batch classified in SpecBatch.
MaxBatch == 2

BSeq(S, n) == UNION {[1..k -> S] : k \in 0..n}

LowerHalf == Net(4, 0, 1)

UpperHalf == Net(4, 2^(AddrBits - 1), 1)

Whole == Net(4, 0, 0)

TopHost == Net(4, AllOnes, AddrBits)

\* The block of 2^bits addresses that starts at start.
Block(start, bits) == Net(4, start, AddrBits - bits)

\* The blocks of 1, 2 and 4 addresses inside the first four addresses, the
\* block of the next four, and the block of all eight.
WindowNets ==
    {Block(a, 0) : a \in 0..3} \cup
    {Block(0, 1), Block(2, 1), Block(0, 2), Block(4, 2), Block(0, 3)}

Garbage == <<"x">>

Padded(s) == <<" ">> \o s \o <<" ">>

\* Strings handed to collapse_networks: the networks of the window, a bare
\* address (the last one), a network with host bits set, a string that is
\* no network, a padded network and a network of the second family.
NetStrUniverse ==
    {str_network(n) : n \in WindowNets} \cup
    {str_address(4, AllOnes), str_address(4, 1) \o <<"/", "0">>, Garbage,
     Padded(str_network(Block(4, 2))), str_network(Net(6, 0, 1))}

\* Strings an index is built from.
IndexStrUniverse ==
    {str_network(LowerHalf), str_network(TopHost), Garbage,
     str_network(Net(6, 0, 0))}

\* Entries of a batch: addresses, blocks (aligned, with host bits set, wider
\* than the indexed networks), padded, blank, malformed, second family.
EntryUniverse ==
    {str_address(4, 0), str_address(4, AllOnes),
     str_address(4, 1) \o <<"/", "1">>, str_network(Whole),
     Padded(str_address(4, 0)), <<>>, <<" ">>, Garbage,
     Garbage \o <<"/", "1">>, str_address(6, 0) \o <<"/", "0">>}

(***************************************************************************)
(* Inputs of a whole run                                                   *)
(***************************************************************************)

\* Longest input file, in lines, among the short input files.
MaxInput == 2

\* Length of the one long input file (long enough for batches of two).
LongLen == 9

US == <<"US", "United States", "1">>

CA == <<"CA", "Canada", "2">>

\* What detect_country_configs returns.
ConfigChoices == {<<>>, <<US, CA>>}

AllColumns == {"network", "country_iso_code", "country_name"}

\* US holds the first four addresses, CA the upper two of them and the last
\* address.
SharedTable ==
    [columns |-> AllColumns,
     rows |-> <<Row(str_network(Block(0, 2)), "US", "United States"),
                Row(str_network(Block(2, 1)), "CA", "Canada"),
                Row(str_network(TopHost), "CA", "Canada")>>]

\* US has one row, with no network; CA holds the upper half.
NoRowsTable ==
    [columns |-> AllColumns,
     rows |-> <<Row(<<>>, "US", "United States"),
                Row(str_network(UpperHalf), "CA", "Canada")>>]

\* US has one row, which is no network; CA has two adjacent addresses, one
\* of them in a row that matches by country name alone.
InvalidTable ==
    [columns |-> AllColumns,
     rows |-> <<Row(Garbage, "US", "United States"),
                Row(str_network(Block(2, 0)), "CA", "Canada"),
                Row(str_network(Block(3, 0)), "XX", "Canada")>>]

EmptyTable == [columns |-> AllColumns, rows |-> <<>>]

NoNetworkColumnTable ==
    [columns |-> {"country_iso_code", "country_name"}, rows |-> <<>>]

\* US holds the first four addresses; the rows of CA hold a network of each
\* address family.
MixedTable ==
    [columns |-> AllColumns,
     rows |-> <<Row(str_network(Block(0, 2)), "US", "United States"),
                Row(str_network(Block(4, 2)), "CA", "Canada"),
                Row(str_network(Net(6, 0, 1)), "CA", "Canada")>>]

GeoTables ==
    {SharedTable, NoRowsTable, InvalidTable, MixedTable, EmptyTable,
     NoNetworkColumnTable}

\* Lines of the input file, without their newline: an address, a block with
\* host bits set, a padded address, a malformed block and a blank line.
LineUniverse ==
    {str_address(4, 3), str_address(4, 1) \o <<"/", "1">>,
     Padded(str_address(4, AllOnes)), Garbage \o <<"/", "1">>, <<" ">>}

LongPattern ==
    <<str_address(4, 3), Garbage \o <<"/", "1">>, Padded(str_address(4, AllOnes)),
      str_address(4, 1) \o <<"/", "1">>, Garbage>>

LongFile == [i \in 1..LongLen |-> LongPattern[((i - 1) % Len(LongPattern)) + 1]]

InputFiles == BSeq(LineUniverse, MaxInput) \cup {LongFile}

\* <<NUM_WORKERS_OVERRIDE, mp.cpu_count()>>; the override is 0 when unset.
HostChoices == {<<0, 1>>, <<2, 1>>}

(***************************************************************************)
(* State                                                                   *)
(***************************************************************************)

VARIABLES
    \* collapse_networks run alone
    network_strs, collapsed, recollapsed, pcC,
    \* one worker process run alone: _init_worker, then _process_ip_batch
    cidr_list, ip_batch, batch_result, pcB,
    \* the global of each worker process: <<>> for None, else <<tree>>
    WORKER_TREE,
    \* the environment of a run
    country_configs, geoip, file_lines, NUM_WORKERS_OVERRIDE, system_cpu_count,
    \* filter_multi_country_ips
    pc, exit_status, input_ip_list, optimal_workers, country_idx,
    all_country_results, country_statistics, all_filtered_ips, combined_file,
    \* process_single_country
    country_networks, optimized_cidrs, ip_batches, filtered_ips, parallel_error,
    path, files,
    \* the pool: its state, the batch each process works on, the next batch
    \* to hand out, the results of the futures, the futures consumed
    pool, worker_task, next_task, batch_results, collected,
    \* the countries a pool was created for
    pools_created,
    \* detect_country_configs run alone: os.environ, the list returned
    environ, detected, pcD

collapseVars == <<network_strs, collapsed, recollapsed, pcC>>

batchVars == <<cidr_list, ip_batch, batch_result, pcB>>

detectVars == <<environ, detected, pcD>>

envVars ==
    <<country_configs, geoip, file_lines, NUM_WORKERS_OVERRIDE, system_cpu_count>>

runVars == <<input_ip_list, optimal_workers>>

outVars ==
    <<all_country_results, country_statistics, all_filtered_ips, combined_file,
      files>>

countryVars == <<country_networks, optimized_cidrs, ip_batches>>

poolVars == <<pool, worker_task, next_task, batch_results>>

mainVars ==
    <<envVars, runVars, outVars, countryVars, poolVars, pc, exit_status,
      country_idx, filtered_ips, parallel_error, path, collected, pools_created>>

vars == <<collapseVars, batchVars, detectVars, WORKER_TREE, mainVars>>

NoResult == [raised |-> FALSE, out |-> <<>>]

NoTrees == [p \in Procs |-> <<>>]

CollapseIdle ==
    /\ network_strs = <<>>
    /\ collapsed = NoResult
    /\ recollapsed = NoResult
    /\ pcC = "idle"

BatchIdle ==
    /\ cidr_list = <<>>
    /\ ip_batch = <<>>
    /\ batch_result = NoResult
    /\ pcB = "idle"

DetectIdle ==
    /\ environ = <<>>
    /\ detected = <<>>
    /\ pcD = "idle"

MainIdle ==
    /\ country_configs = <<>>
    /\ geoip = EmptyTable
    /\ file_lines = <<>>
    /\ NUM_WORKERS_OVERRIDE = 0
    /\ system_cpu_count = 1
    /\ pc = "idle"
    /\ exit_status = -1
    /\ input_ip_list = <<>>
    /\ optimal_workers = 0
    /\ country_idx = 0
    /\ all_country_results = <<>>
    /\ country_statistics = <<>>
    /\ all_filtered_ips = {}
    /\ combined_file = <<>>
    /\ country_networks = <<>>
    /\ optimized_cidrs = <<>>
    /\ ip_batches = <<>>
    /\ filtered_ips = <<>>
    /\ parallel_error = "none"
    /\ path = "none"
    /\ files = {}
    /\ pool = "none"
    /\ worker_task = [p \in Procs |-> 0]
    /\ next_task = 0
    /\ batch_results = <<>>
    /\ collected = 0
    /\ pools_created = {}

(***************************************************************************)
(* SpecCollapse: collapse_networks on a list, then on its own output       *)
(***************************************************************************)

CollapseInit ==
    /\ network_strs \in BSeq(NetStrUniverse, MaxNets)
    /\ collapsed = NoResult
    /\ recollapsed = NoResult
    /\ pcC = "input"
    /\ BatchIdle
    /\ DetectIdle
    /\ WORKER_TREE = NoTrees
    /\ MainIdle

Collapse ==
    /\ pcC = "input"
    /\ collapsed' = collapse_networks(network_strs)
    /\ pcC' = "collapsed"
    /\ UNCHANGED <<network_strs, recollapsed, batchVars, detectVars, WORKER_TREE,
                   mainVars>>

Recollapse ==
    /\ pcC = "collapsed"
    /\ ~collapsed.raised
    /\ recollapsed' = collapse_networks(collapsed.out)
    /\ pcC' = "recollapsed"
    /\ UNCHANGED <<network_strs, collapsed, batchVars, detectVars, WORKER_TREE,
                   mainVars>>

CollapseNext == Collapse \/ Recollapse

SpecCollapse == CollapseInit /\ [][CollapseNext]_vars

(***************************************************************************)
(* SpecBatch: one worker process builds its index and classifies a batch   *)
(***************************************************************************)

BatchInit ==
    /\ cidr_list \in BSeq(IndexStrUniverse, MaxCidrs)
    /\ ip_batch \in BSeq(EntryUniverse, MaxBatch)
    /\ WORKER_TREE = NoTrees
    /\ batch_result = NoResult
    /\ pcB = "start"
    /\ CollapseIdle
    /\ DetectIdle
    /\ MainIdle

InitWorker ==
    /\ pcB = "start"
    /\ WORKER_TREE' = [WORKER_TREE EXCEPT ![1] = init_worker(cidr_list)]
    /\ pcB' = "ready"
    /\ UNCHANGED <<cidr_list, ip_batch, batch_result, collapseVars, detectVars,
                   mainVars>>

ProcessBatch ==
    /\ pcB = "ready"
    /\ batch_result' = process_ip_batch(WORKER_TREE[1], ip_batch)
    /\ pcB' = "classified"
    /\ UNCHANGED <<cidr_list, ip_batch, WORKER_TREE, collapseVars, detectVars,
                   mainVars>>

BatchNext == InitWorker \/ ProcessBatch

SpecBatch == BatchInit /\ [][BatchNext]_vars

(***************************************************************************)
(* Spec: a whole run of filter_multi_country_ips                           *)
(***************************************************************************)

Init ==
    /\ country_configs \in ConfigChoices
    /\ geoip \in GeoTables
    /\ file_lines \in InputFiles
    /\ \E h \in HostChoices : NUM_WORKERS_OVERRIDE = h[1] /\ system_cpu_count = h[2]
    /\ pc = "detect"
    /\ exit_status = -1
    /\ input_ip_list = <<>>
    /\ optimal_workers = 0
    /\ country_idx = 0
    /\ all_country_results = <<>>
    /\ country_statistics = <<>>
    /\ all_filtered_ips = {}
    /\ combined_file = <<>>
    /\ country_networks = <<>>
    /\ optimized_cidrs = <<>>
    /\ ip_batches = <<>>
    /\ filtered_ips = <<>>
    /\ parallel_error = "none"
    /\ path = "none"
    /\ files = {}
    /\ pool = "none"
    /\ worker_task = [p \in Procs |-> 0]
    /\ next_task = 0
    /\ batch_results = <<>>
    /\ collected = 0
    /\ pools_created = {}
    /\ WORKER_TREE = NoTrees
    /\ CollapseIdle
    /\ BatchIdle
    /\ DetectIdle

pureVars == <<collapseVars, batchVars, detectVars>>

\* Stage 1: no country configured is fatal.
DetectConfigs ==
    /\ pc = "detect"
    /\ IF country_configs = <<>>
       THEN pc' = "exit" /\ exit_status' = 1
       ELSE pc' = "load_geoip" /\ UNCHANGED exit_status
    /\ UNCHANGED <<envVars, runVars, outVars, countryVars, poolVars, country_idx,
                   filtered_ips, parallel_error, path, collected, pools_created,
                   WORKER_TREE, pureVars>>

\* Stage 3 without the test for the 'network' column.
LoadGeoip_noColumnCheck ==
    /\ pc = "load_geoip"
    /\ pc' = "load_input"
    /\ UNCHANGED <<envVars, runVars, outVars, countryVars, poolVars, country_idx,
                   exit_status, filtered_ips, parallel_error, path, collected,
                   pools_created, WORKER_TREE, pureVars>>

\* Stage 3: the reference data must have a 'network' column.
LoadGeoip ==
    /\ pc = "load_geoip"
    /\ IF "network" \notin geoip.columns
       THEN pc' = "exit" /\ exit_status' = 1
       ELSE pc' = "load_input" /\ UNCHANGED exit_status
    /\ UNCHANGED <<envVars, runVars, outVars, countryVars, poolVars, country_idx,
                   filtered_ips, parallel_error, path, collected, pools_created,
                   WORKER_TREE, pureVars>>

\* [line.rstrip('\n') for line in input_file if line.strip()]
load_lines(lines) == SelectSeq(lines, LAMBDA line : strip(line) # <<>>)

\* Stage 4: the input list; an empty list ends the run at once.
LoadInput ==
    /\ pc = "load_input"
    /\ input_ip_list' = load_lines(file_lines)
    /\ IF Len(load_lines(file_lines)) = 0
       THEN pc' = "done" /\ exit_status' = 0
       ELSE pc' = "setup" /\ UNCHANGED exit_status
    /\ UNCHANGED <<envVars, optimal_workers, outVars, countryVars, poolVars,
                   country_idx, filtered_ips, parallel_error, path, collected,
                   pools_created, WORKER_TREE, pureVars>>

\* Stage 5: the worker count.
Setup ==
    /\ pc = "setup"
    /\ optimal_workers' = optimal_workers_of(NUM_WORKERS_OVERRIDE, system_cpu_count)
    /\ country_idx' = 1
    /\ pc' = "loop"
    /\ UNCHANGED <<envVars, input_ip_list, outVars, countryVars, poolVars,
                   exit_status, filtered_ips, parallel_error, path, collected,
                   pools_created, WORKER_TREE, pureVars>>

\* The body of the for loop of stage 6 after process_single_country returned
\* (matched, stats) for the country at country_idx.
Returned(matched, stats) ==
    /\ all_country_results' =
           Append(all_country_results,
                  <<country_configs[country_idx][1], country_configs[country_idx][2],
                    matched>>)
    /\ country_statistics' = Append(country_statistics, stats)
    /\ all_filtered_ips' = set_update(all_filtered_ips, matched)
    /\ country_idx' = country_idx + 1
    /\ pc' = "loop"

\* The locals of process_single_country are gone once it has returned.
LocalsGone ==
    /\ country_networks' = <<>>
    /\ optimized_cidrs' = <<>>
    /\ ip_batches' = <<>>
    /\ filtered_ips' = <<>>
    /\ parallel_error' = "none"
    /\ path' = "none"
    /\ collected' = 0

\* A pool that is not shut down when the results have been collected.
PoolGone_noShutdown == UNCHANGED <<poolVars, WORKER_TREE>>

\* A pool whose worker processes, with their global, outlive the with block.
PoolGone_keepWorkers ==
    /\ pool' = "closed"
    /\ WORKER_TREE' = WORKER_TREE
    /\ worker_task' = [p \in Procs |-> 0]
    /\ next_task' = 0
    /\ batch_results' = <<>>

\* The pool is shut down: its processes and its futures are gone.
PoolGone ==
    /\ pool' = "closed"
    /\ WORKER_TREE' = NoTrees
    /\ worker_task' = [p \in Procs |-> 0]
    /\ next_task' = 0
    /\ batch_results' = <<>>

\* process_single_country up to the pool: the country's networks, their
\* optimization, the batches.  The two early returns go back to the loop.
StartCountry ==
    /\ pc = "loop"
    /\ country_idx <= Len(country_configs)
    /\ LET config   == country_configs[country_idx]
           networks == country_networks_of(geoip.rows, config[1], config[2])
           opt      == collapse_networks(networks)
       IN IF Len(networks) = 0
          THEN /\ Returned(<<>>, Stats(config, 0, 0, 0, <<>>))
               /\ LocalsGone
               /\ UNCHANGED exit_status
          ELSE IF opt.raised
          THEN /\ pc' = "exit"
               /\ exit_status' = 1
               /\ LocalsGone
               /\ UNCHANGED <<all_country_results, country_statistics,
                              all_filtered_ips, country_idx>>
          ELSE IF Len(opt.out) = 0
          THEN /\ Returned(<<>>, Stats(config, Len(networks), 0, 0, <<>>))
               /\ LocalsGone
               /\ UNCHANGED exit_status
          ELSE /\ country_networks' = networks
               /\ optimized_cidrs' = opt.out
               /\ ip_batches' =
                      split_batches(input_ip_list, 0,
                          batch_size_of(Len(input_ip_list), optimal_workers))
               /\ filtered_ips' = <<>>
               /\ pc' = "pool"
               /\ UNCHANGED <<all_country_results, country_statistics,
                              all_filtered_ips, country_idx, exit_status,
                              parallel_error, path, collected>>
    /\ UNCHANGED <<envVars, runVars, combined_file, files, poolVars,
                   pools_created, WORKER_TREE, pureVars>>

\* PoolStart that opens the country's output file for writing before the
\* classification.
PoolStart_opensFile ==
    /\ pc = "pool"
    /\ pool' = "running"
    /\ WORKER_TREE' = NoTrees
    /\ worker_task' = [p \in Procs |-> 0]
    /\ next_task' = 1
    /\ batch_results' = [i \in 1..Len(ip_batches) |-> <<>>]
    /\ pools_created' = pools_created \cup {country_idx}
    /\ files' = write_file(files, output_filename_of(country_configs[country_idx][1]),
                           <<>>)
    /\ pc' = "collect"
    /\ UNCHANGED <<envVars, runVars, all_country_results, country_statistics,
                   all_filtered_ips, combined_file, countryVars, exit_status,
                   country_idx, filtered_ips, parallel_error, path, collected,
                   pureVars>>

\* ProcessPoolExecutor(...) and executor.map(...): the pool exists, every
\* batch is submitted, no process has run its initializer yet.
PoolStart ==
    /\ pc = "pool"
    /\ pool' = "running"
    /\ WORKER_TREE' = NoTrees
    /\ worker_task' = [p \in Procs |-> 0]
    /\ next_task' = 1
    /\ batch_results' = [i \in 1..Len(ip_batches) |-> <<>>]
    /\ pools_created' = pools_created \cup {country_idx}
    /\ pc' = "collect"
    /\ UNCHANGED <<envVars, runVars, outVars, countryVars, exit_status,
                   country_idx, filtered_ips, parallel_error, path, collected,
                   pureVars>>

\* The pool cannot be created: the exception reaches the except branch.
PoolStartFails ==
    /\ pc = "pool"
    /\ parallel_error' = "startup"
    /\ pc' = "fallback"
    /\ UNCHANGED <<envVars, runVars, outVars, countryVars, poolVars, exit_status,
                   country_idx, filtered_ips, path, collected, pools_created,
                   WORKER_TREE, pureVars>>

\* A worker process starts: initializer=_init_worker, initargs=(optimized_cidrs,)
WorkerInit(w) ==
    /\ pc = "collect"
    /\ pool = "running"
    /\ w <= optimal_workers
    /\ WORKER_TREE[w] = <<>>
    /\ WORKER_TREE' = [WORKER_TREE EXCEPT ![w] = init_worker(optimized_cidrs)]
    /\ UNCHANGED <<mainVars, pureVars>>

\* An initialized, idle worker takes the next batch of the queue.
WorkerTake(w) ==
    /\ pc = "collect"
    /\ pool = "running"
    /\ w <= optimal_workers
    /\ WORKER_TREE[w] # <<>>
    /\ worker_task[w] = 0
    /\ next_task <= Len(ip_batches)
    /\ worker_task' = [worker_task EXCEPT ![w] = next_task]
    /\ next_task' = next_task + 1
    /\ UNCHANGED <<envVars, runVars, outVars, countryVars, pool, batch_results,
                   pc, exit_status, country_idx, filtered_ips, parallel_error,
                   path, collected, pools_created, WORKER_TREE, pureVars>>

\* WorkerFinish whose result becomes the next result of the iterator, in
\* order of completion, instead of the result of its own future.
WorkerFinish_asCompleted(w) ==
    /\ pc = "collect"
    /\ pool = "running"
    /\ worker_task[w] # 0
    /\ LET slot == CHOOSE i \in 1..Len(batch_results) :
                       /\ batch_results[i] = <<>>
                       /\ \A j \in 1..(i - 1) : batch_results[j] # <<>>
       IN batch_results' =
              [batch_results EXCEPT ![slot] =
                  <<process_ip_batch(WORKER_TREE[w], ip_batches[worker_task[w]])>>]
    /\ worker_task' = [worker_task EXCEPT ![w] = 0]
    /\ UNCHANGED <<envVars, runVars, outVars, countryVars, pool, next_task,
                   pc, exit_status, country_idx, filtered_ips, parallel_error,
                   path, collected, pools_created, WORKER_TREE, pureVars>>

\* The worker ends _process_ip_batch on its batch; the future has its result.
WorkerFinish(w) ==
    /\ pc = "collect"
    /\ pool = "running"
    /\ worker_task[w] # 0
    /\ batch_results' =
           [batch_results EXCEPT ![worker_task[w]] =
               <<process_ip_batch(WORKER_TREE[w], ip_batches[worker_task[w]])>>]
    /\ worker_task' = [worker_task EXCEPT ![w] = 0]
    /\ UNCHANGED <<envVars, runVars, outVars, countryVars, pool, next_task,
                   pc, exit_status, country_idx, filtered_ips, parallel_error,
                   path, collected, pools_created, WORKER_TREE, pureVars>>

\* A worker process dies (killed, out of memory): the pool is broken and
\* every future that has no result yet fails with BrokenProcessPool.
WorkerDies ==
    /\ pc = "collect"
    /\ pool = "running"
    /\ \E i \in 1..Len(batch_results) : batch_results[i] = <<>>
    /\ pool' = "broken"
    /\ UNCHANGED <<envVars, runVars, outVars, countryVars, worker_task, next_task,
                   batch_results, pc, exit_status, country_idx, filtered_ips,
                   parallel_error, path, collected, pools_created, WORKER_TREE,
                   pureVars>>

\* One step of "for batch_result in batch_results": the next future, in
\* submission order.  Its result extends filtered_ips; its exception, or the
\* broken pool, leaves the with block for the except branch; after the last
\* future the with block ends and the pool is shut down.
Collect ==
    /\ pc = "collect"
    /\ LET i == collected + 1
       IN IF i > Len(ip_batches)
          THEN /\ PoolGone
               /\ path' = "parallel"
               /\ pc' = "write"
               /\ UNCHANGED <<filtered_ips, collected, parallel_error>>
          ELSE IF batch_results[i] # <<>>
          THEN IF batch_results[i][1].raised
               THEN /\ PoolGone
                    /\ parallel_error' = "task"
                    /\ pc' = "fallback"
                    /\ UNCHANGED <<filtered_ips, collected, path>>
               ELSE /\ filtered_ips' = filtered_ips \o batch_results[i][1].out
                    /\ collected' = i
                    /\ UNCHANGED <<poolVars, WORKER_TREE, parallel_error, path, pc>>
          ELSE /\ pool = "broken"
               /\ PoolGone
               /\ parallel_error' = "broken"
               /\ pc' = "fallback"
               /\ UNCHANGED <<filtered_ips, collected, path>>
    /\ UNCHANGED <<envVars, runVars, outVars, countryVars, exit_status,
                   country_idx, pools_created, pureVars>>

\* The except branch: the single-threaded pass over the whole input list.
Fallback ==
    /\ pc = "fallback"
    /\ filtered_ips' = fallback(optimized_cidrs, input_ip_list, filtered_ips)
    /\ path' = "fallback"
    /\ pc' = "write"
    /\ UNCHANGED <<envVars, runVars, outVars, countryVars, poolVars, exit_status,
                   country_idx, parallel_error, collected, pools_created,
                   WORKER_TREE, pureVars>>

\* The country's file is written, process_single_country returns.
WriteOutput ==
    /\ pc = "write"
    /\ LET config == country_configs[country_idx]
           name   == output_filename_of(config[1])
       IN /\ files' = write_file(files, name, filtered_ips)
          /\ Returned(filtered_ips,
                      Stats(config, Len(country_networks), Len(optimized_cidrs),
                            Len(filtered_ips), <<name>>))
    /\ LocalsGone
    /\ UNCHANGED <<envVars, runVars, combined_file, poolVars, exit_status,
                   pools_created, WORKER_TREE, pureVars>>

\* WriteOutputFails without the except clause: the IOError leaves
\* process_single_country and ends the run.
WriteOutputFails_uncaught ==
    /\ pc = "write"
    /\ pc' = "exit"
    /\ exit_status' = 1
    /\ LocalsGone
    /\ UNCHANGED <<envVars, runVars, outVars, poolVars, country_idx,
                   pools_created, WORKER_TREE, pureVars>>

\* The write raises IOError: output_filename = None, the rest as usual.
WriteOutputFails ==
    /\ pc = "write"
    /\ LET config == country_configs[country_idx]
       IN Returned(filtered_ips,
                   Stats(config, Len(country_networks), Len(optimized_cidrs),
                         Len(filtered_ips), <<>>))
    /\ LocalsGone
    /\ UNCHANGED <<envVars, runVars, combined_file, files, poolVars,
                   exit_status, pools_created, WORKER_TREE, pureVars>>

\* The for loop of stage 6 is over.
EndLoop ==
    /\ pc = "loop"
    /\ country_idx > Len(country_configs)
    /\ pc' = "combine"
    /\ UNCHANGED <<envVars, runVars, outVars, countryVars, poolVars, exit_status,
                   country_idx, filtered_ips, parallel_error, path, collected,
                   pools_created, WORKER_TREE, pureVars>>

\* for ip_address in sorted(all_filtered_ips): the lines of the combined file
combined_lines(all_filtered_ips_) == sorted_strs(all_filtered_ips_)

\* Stage 7: the combined file is written; the run ends.
WriteCombined ==
    /\ pc = "combine"
    /\ combined_file' = <<combined_lines(all_filtered_ips)>>
    /\ pc' = "done"
    /\ exit_status' = 0
    /\ UNCHANGED <<envVars, runVars, all_country_results, country_statistics,
                   all_filtered_ips, files, countryVars, poolVars, country_idx,
                   filtered_ips, parallel_error, path, collected, pools_created,
                   WORKER_TREE, pureVars>>

\* Stage 7 with an IOError: no combined file; the run ends all the same.
WriteCombinedFails ==
    /\ pc = "combine"
    /\ pc' = "done"
    /\ exit_status' = 0
    /\ UNCHANGED <<envVars, runVars, outVars, countryVars, poolVars, country_idx,
                   filtered_ips, parallel_error, path, collected, pools_created,
                   WORKER_TREE, pureVars>>

Next ==
    \/ DetectConfigs
    \/ LoadGeoip
    \/ LoadInput
    \/ Setup
    \/ StartCountry
    \/ PoolStart
    \/ PoolStartFails
    \/ \E w \in Procs : WorkerInit(w)
    \/ \E w \in Procs : WorkerTake(w)
    \/ \E w \in Procs : WorkerFinish(w)
    \/ WorkerDies
    \/ Collect
    \/ Fallback
    \/ WriteOutput
    \/ WriteOutputFails
    \/ EndLoop
    \/ WriteCombined
    \/ WriteCombinedFails

Spec == Init /\ [][Next]_vars

(***************************************************************************)
(* Claims about collapse_networks (SpecCollapse)                           *)
(***************************************************************************)

\* The networks a list of strings denotes, each parsed as the index parses it.
ParsedNets(strs) ==
    {Net(n.ver, n.addr, n.len) :
        n \in {ip_network(s, TRUE) : s \in {t \in Range(strs) : ip_network(t, TRUE).ok}}}

\* The addresses covered by the syntactically valid networks of the input.
ValidInputCover ==
    UNION {Covered(ip_network(strip(s), TRUE)) :
              s \in {t \in Range(network_strs) : ip_network(strip(t), TRUE).ok}}

OutputCover == UNION {Covered(n) : n \in ParsedNets(collapsed.out)}

\* C6: whenever collapse_networks returns, every string it returns is a
\* network, and the addresses its networks cover are exactly the addresses
\* covered by the valid networks of its input: none lost, none added.
C6_CoverageKept ==
    (pcC # "input" /\ ~collapsed.raised) =>
        /\ \A s \in Range(collapsed.out) : ip_network(s, TRUE).ok
        /\ OutputCover = ValidInputCover

\* Three strings went in, one of them invalid, and the two valid networks
\* were merged into one.
C6_Witness ==
    /\ pcC = "collapsed"
    /\ ~collapsed.raised
    /\ Len(network_strs) = 3
    /\ Cardinality(Range(network_objects(network_strs))) = 2
    /\ Len(collapsed.out) = 1

\* C7: collapse_networks applied to its own output returns that output, the
\* same strings in the same order.
C7_Idempotent ==
    pcC = "recollapsed" => (~recollapsed.raised /\ recollapsed.out = collapsed.out)

\* The first pass merged three networks down to two; the second pass ran.
C7_Witness ==
    /\ pcC = "recollapsed"
    /\ Cardinality(Range(network_objects(network_strs))) = 3
    /\ Len(collapsed.out) = 2

Overlap(m, n) == Covered(m) \cap Covered(n) # {}

\* one ends at the address immediately before the other's start
Adjacent(m, n) ==
    /\ m.ver = n.ver
    /\ \/ broadcast_address(m) + 1 = n.addr
       \/ broadcast_address(n) + 1 = m.addr

UnionIsBlock(m, n) == m # n /\ m.len = n.len /\ supernet(m) = supernet(n)

KeyOf(entry) ==
    IF HasSlash(entry)
    THEN {<<n.ver, network_address(n)>> :
             n \in {m \in {ip_network(entry, FALSE)} : m.ok}}
    ELSE {<<a.ver, a.addr>> : a \in {m \in {ip_address(entry)} : m.ok}}

IndexCover(tree) == UNION {Covered(n) : n \in tree}

Trimmed(batch) == SelectSeq(MapSeq(strip, batch), LAMBDA e : e # <<>>)

\* C4: _process_ip_batch returns the trimmed non-empty entries of the batch
\* whose lookup key is in the index, as trimmed, in the order of the batch.
C4_MatchedSubsequence ==
    pcB = "classified" =>
        /\ ~batch_result.raised
        /\ batch_result.out =
               SelectSeq(Trimmed(ip_batch),
                         LAMBDA e : KeyOf(e) \cap IndexCover(WORKER_TREE[1][1]) # {})

\* Two entries were emitted, the first a block with host bits set (emitted
\* as written), the second an entry that was padded in the batch.
C4_Witness ==
    /\ pcB = "classified"
    /\ Len(batch_result.out) = 2
    /\ HasSlash(batch_result.out[1])
    /\ ~ip_network(batch_result.out[1], TRUE).ok
    /\ batch_result.out[2] # ip_batch[2]

(***************************************************************************)
(* Claims about process_single_country and the orchestrator (Spec)         *)
(***************************************************************************)

BagOfSeq(s) == [x \in Range(s) |-> Cardinality({i \in 1..Len(s) : s[i] = x})]

\* One sequential pass of the batch classifier over the whole input list.
SequentialPass ==
    process_ip_batch(init_worker(optimized_cidrs), input_ip_list).out

\* C1: when the parallel attempt completes, the matched list holds exactly
\* the entries (as a multiset) of one sequential pass of the batch
\* classifier over the whole input list.
C1_ParallelIsSequentialPass ==
    (pc = "write" /\ path = "parallel") =>
        BagOfSeq(filtered_ips) = BagOfSeq(SequentialPass)

\* The parallel attempt completed over several batches, one of them of two
\* entries, and matched some entry twice and not every entry.
C1_Witness ==
    /\ pc = "write"
    /\ path = "parallel"
    /\ \E i \in 1..Len(ip_batches) : Len(ip_batches[i]) = 2
    /\ \E i \in 1..Len(ip_batches) : Len(ip_batches[i]) = 1
    /\ Len(filtered_ips) < Len(input_ip_list)
    /\ \E i, j \in 1..Len(filtered_ips) : i # j /\ filtered_ips[i] = filtered_ips[j]

\* C2 as stated: when the parallel attempt raised, the matched list is the
\* list the sequential fallback pass alone produces.
C2_FallbackAlone ==
    (pc = "write" /\ path = "fallback") =>
        filtered_ips = fallback(optimized_cidrs, input_ip_list, <<>>)

\* What the parallel attempt returns when it completes: the results of the
\* batches, concatenated in submission order.
RECURSIVE ParallelResult(_, _)
ParallelResult(tree, batches) ==
    IF batches = <<>> THEN <<>>
    ELSE process_ip_batch(tree, Head(batches)).out \o
         ParallelResult(tree, Tail(batches))

\* C3: the set of entries returned after the fallback equals the set the
\* parallel attempt returns when it succeeds.
C3_FallbackSetIsParallelSet ==
    (pc = "write" /\ path = "fallback") =>
        Range(filtered_ips) =
            Range(ParallelResult(init_worker(optimized_cidrs), ip_batches))

\* The fallback ran after the pool broke with some batches already
\* collected, and it matched entries.
C3_Witness ==
    /\ pc = "write"
    /\ path = "fallback"
    /\ parallel_error = "broken"
    /\ collected >= 1
    /\ filtered_ips # <<>>

\* an entry that is neither an address nor a block
Malformed(entry) == strip(entry) # <<>> /\ KeyOf(strip(entry)) = {}

\* C5: a malformed entry is dropped while the rest of its batch is
\* classified, no exception leaves _process_ip_batch, and the fallback is
\* never taken because of an entry.
C5_MalformedDropped ==
    /\ \A i \in 1..Len(batch_results) :
           batch_results[i] # <<>> =>
               /\ ~batch_results[i][1].raised
               /\ \A e \in Range(batch_results[i][1].out) : ~Malformed(e)
               /\ batch_results[i][1].out =
                      process_ip_batch(init_worker(optimized_cidrs),
                          SelectSeq(ip_batches[i], LAMBDA e : ~Malformed(e))).out
    /\ parallel_error \in {"none", "startup", "broken"}

\* A batch with a malformed entry was classified and matched its other entry.
C5_Witness ==
    /\ pc = "collect"
    /\ \E i \in 1..Len(batch_results) :
           /\ batch_results[i] # <<>>
           /\ \E e \in Range(ip_batches[i]) : Malformed(e)
           /\ batch_results[i][1].out # <<>>

MatchedByAnyCountry ==
    UNION {Range(all_country_results[i][3]) : i \in 1..Len(all_country_results)}

\* C9: the combined file holds the entries matched by at least one country,
\* each once, in ascending string order.
C9_CombinedIsSortedUnion ==
    (pc = "done" /\ combined_file # <<>>) =>
        /\ Range(combined_file[1]) = MatchedByAnyCountry
        /\ \A i, j \in 1..Len(combined_file[1]) :
               i < j => StrLess(combined_file[1][i], combined_file[1][j])

\* Two countries matched a common entry, each matched an entry of its own,
\* and the combined file was written.
C9_Witness ==
    /\ pc = "done"
    /\ combined_file # <<>>
    /\ Len(all_country_results) = 2
    /\ Range(all_country_results[1][3]) \cap Range(all_country_results[2][3]) # {}
    /\ Range(all_country_results[1][3]) \ Range(all_country_results[2][3]) # {}
    /\ Range(all_country_results[2][3]) \ Range(all_country_results[1][3]) # {}

\* The country at position i has no reference row with a network, or none
\* of its networks is valid.
ZeroCountry(i) ==
    \A s \in Range(country_networks_of(geoip.rows, country_configs[i][1],
                                       country_configs[i][2])) :
        ~ip_network(strip(s), TRUE).ok

\* C10: a country without networks gets an empty matched list and a
\* zero-result record, no pool, no file and no exception, and the countries
\* after it are processed.
C10_ZeroCountryRecorded ==
    /\ \A i \in 1..Len(country_statistics) :
           ZeroCountry(i) =>
               /\ all_country_results[i][3] = <<>>
               /\ country_statistics[i].ips_matched = 0
               /\ country_statistics[i].networks_optimized = 0
               /\ country_statistics[i].output_file = <<>>
               /\ \A f \in files : f.name # output_filename_of(country_configs[i][1])
    /\ \A i \in pools_created : ~ZeroCountry(i)
    /\ (pc = "exit" /\ country_idx >= 1) => ~ZeroCountry(country_idx)
    /\ (pc \in {"combine", "done"} /\ input_ip_list # <<>>) =>
           Len(country_statistics) = Len(country_configs)

\* The first country had no networks, the second one was processed after it
\* and matched entries.
C10_Witness ==
    /\ pc = "done"
    /\ Len(country_statistics) = 2
    /\ ZeroCountry(1)
    /\ country_statistics[2].ips_matched > 0

(***************************************************************************)
(* The fatal preconditions                                                 *)
(***************************************************************************)

\* no country is configured, or the reference data has no 'network' column
FatalPrecondition ==
    country_configs = <<>> \/ "network" \notin geoip.columns

\* C11: with no country configured, or with reference data that has no
\* 'network' column, the run never gets past the two tests: it ends with
\* exit status 1, no country has been classified (no result, no record, no
\* pool) and no file has been written.
C11_FatalPreconditionsAbort ==
    FatalPrecondition =>
        /\ pc \in {"detect", "load_geoip", "exit"}
        /\ pc = "exit" => exit_status = 1
        /\ exit_status \in {-1, 1}
        /\ all_country_results = <<>>
        /\ country_statistics = <<>>
        /\ pools_created = {}
        /\ files = {}
        /\ combined_file = <<>>
        /\ country_idx = 0

\* Countries are configured, the reference data has no 'network' column,
\* and the run has ended with status 1.
C11_Witness ==
    /\ country_configs # <<>>
    /\ "network" \notin geoip.columns
    /\ pc = "exit"
    /\ exit_status = 1

(***************************************************************************)
(* The worker count: runs over every override and processor count          *)
(***************************************************************************)

\* Largest NUM_WORKERS override and largest mp.cpu_count() tried.
MaxOverride == 5

MaxCpu == 5

\* Two lines of input, the first in a network of US and the second in one
\* of CA: two batches of one entry whatever the worker count.
TwoLineFile == <<str_address(4, 3), str_address(4, AllOnes)>>

\* A run on SharedTable and TwoLineFile with two countries, for every value
\* line 79 can give NUM_WORKERS_OVERRIDE (0 for None, else at least 1) and
\* every processor count.
WorkersInit ==
    /\ country_configs = <<US, CA>>
    /\ geoip = SharedTable
    /\ file_lines = TwoLineFile
    /\ NUM_WORKERS_OVERRIDE \in 0..MaxOverride
    /\ system_cpu_count \in 1..MaxCpu
    /\ pc = "detect"
    /\ exit_status = -1
    /\ input_ip_list = <<>>
    /\ optimal_workers = 0
    /\ country_idx = 0
    /\ all_country_results = <<>>
    /\ country_statistics = <<>>
    /\ all_filtered_ips = {}
    /\ combined_file = <<>>
    /\ country_networks = <<>>
    /\ optimized_cidrs = <<>>
    /\ ip_batches = <<>>
    /\ filtered_ips = <<>>
    /\ parallel_error = "none"
    /\ path = "none"
    /\ files = {}
    /\ pool = "none"
    /\ worker_task = [p \in Procs |-> 0]
    /\ next_task = 0
    /\ batch_results = <<>>
    /\ collected = 0
    /\ pools_created = {}
    /\ WORKER_TREE = NoTrees
    /\ CollapseIdle
    /\ BatchIdle
    /\ DetectIdle

SpecWorkers == WorkersInit /\ [][Next]_vars

\* the worker processes of the pool that have started
StartedWorkers == {w \in Procs : WORKER_TREE[w] # <<>>}

\* the worker count has been computed (stage 5 is over)
WorkersComputed == pc \in {"loop", "pool", "collect", "fallback", "write", "combine"}

\* C12 as stated: the worker count is the smaller of the override, when one
\* is given, and the processor count, capped at 4, and is at least 1.
C12_WorkersMinOfOverrideAndCpu ==
    WorkersComputed =>
        /\ optimal_workers =
               Min(IF NUM_WORKERS_OVERRIDE # 0
                   THEN Min(NUM_WORKERS_OVERRIDE, system_cpu_count)
                   ELSE system_cpu_count, 4)
        /\ optimal_workers >= 1

\* C12 amended: the worker count of every pool is the override when one is
\* given and the processor count otherwise, capped at 4; it is at least 1
\* and no pool runs more worker processes than that.
C12_WorkersOverrideElseCpu ==
    /\ WorkersComputed =>
           /\ NUM_WORKERS_OVERRIDE # 0 =>
                  optimal_workers = Min(NUM_WORKERS_OVERRIDE, 4)
           /\ NUM_WORKERS_OVERRIDE = 0 =>
                  optimal_workers = Min(system_cpu_count, 4)
           /\ optimal_workers >= 1
    /\ pool = "running" => WorkersComputed
    /\ StartedWorkers \subseteq 1..optimal_workers

\* A pool of the second country runs three worker processes, all started,
\* under an override of 3 on a host of one processor.
C12_Witness ==
    /\ NUM_WORKERS_OVERRIDE = 3
    /\ system_cpu_count = 1
    /\ country_idx = 2
    /\ pool = "running"
    /\ StartedWorkers = 1..3

(***************************************************************************)
(* The batching: runs of process_single_country up to the pool, over every *)
(* list length and worker count                                            *)
(***************************************************************************)

\* Longest input list batched.
MaxListLen == 33

\* the input list of n entries: LongPattern repeated
ListOfLen(n) == [i \in 1..n |-> LongPattern[((i - 1) % Len(LongPattern)) + 1]]

\* The state in which the country loop is entered (after stage 5) for one
\* country with networks, an input of n >= 1 lines and w workers.
BatchingInit ==
    /\ country_configs = <<US>>
    /\ geoip = SharedTable
    /\ \E n \in 1..MaxListLen :
           /\ file_lines = ListOfLen(n)
           /\ input_ip_list = ListOfLen(n)
    /\ NUM_WORKERS_OVERRIDE = 0
    /\ \E w \in Procs : system_cpu_count = w /\ optimal_workers = w
    /\ pc = "loop"
    /\ exit_status = -1
    /\ country_idx = 1
    /\ all_country_results = <<>>
    /\ country_statistics = <<>>
    /\ all_filtered_ips = {}
    /\ combined_file = <<>>
    /\ country_networks = <<>>
    /\ optimized_cidrs = <<>>
    /\ ip_batches = <<>>
    /\ filtered_ips = <<>>
    /\ parallel_error = "none"
    /\ path = "none"
    /\ files = {}
    /\ pool = "none"
    /\ worker_task = [p \in Procs |-> 0]
    /\ next_task = 0
    /\ batch_results = <<>>
    /\ collected = 0
    /\ pools_created = {}
    /\ WORKER_TREE = NoTrees
    /\ CollapseIdle
    /\ BatchIdle
    /\ DetectIdle

BatchingNext == StartCountry

SpecBatching == BatchingInit /\ [][BatchingNext]_vars

RECURSIVE Concat(_)
Concat(seqs) == IF seqs = <<>> THEN <<>> ELSE Head(seqs) \o Concat(Tail(seqs))

\* max(1, floor(n / (4 * w)))
ClaimedBatchSize(n, w) ==
    IF n \div (4 * w) >= 1 THEN n \div (4 * w) ELSE 1

\* C13: the batches are contiguous slices whose concatenation is the input
\* list; none is empty, every batch but the last has exactly
\* max(1, floor(n / (4 * w))) entries and the last has at most that many.
C13_BatchesPartitionInput ==
    pc = "pool" =>
        LET size == ClaimedBatchSize(Len(input_ip_list), optimal_workers)
            last == Len(ip_batches)
        IN /\ Concat(ip_batches) = input_ip_list
           /\ \A i \in 1..last : Len(ip_batches[i]) >= 1
           /\ \A i \in 1..(last - 1) : Len(ip_batches[i]) = size
           /\ last >= 1
           /\ Len(ip_batches[last]) <= size

\* Batches of more than one entry, at least three of them, the last one
\* shorter than the others.
C13_Witness ==
    /\ pc = "pool"
    /\ Len(ip_batches) >= 3
    /\ Len(ip_batches[1]) >= 2
    /\ Len(ip_batches[Len(ip_batches)]) < Len(ip_batches[1])

(***************************************************************************)
(* The lookup key                                                          *)
(***************************************************************************)

\* the entry has a '/' and is a block (host bits may be set)
IsBlock(entry) == HasSlash(entry) /\ ip_network(entry, FALSE).ok

\* The first address of the block an entry a/p names: the multiple of the
\* block size at or below a, tagged with the family.
FirstAddress(entry) ==
    LET parts == split_slash(entry)
        a     == ip_address(parts[1])
        size  == 2^(AddrBits - prefix_from_prefix_string(parts[2]).val)
    IN <<a.ver, CHOOSE f \in 0..a.addr : f % size = 0 /\ a.addr - f < size>>

\* the entry has no '/' and is an address
IsAddress(entry) == ~HasSlash(entry) /\ ip_address(entry).ok

AddressOf(entry) == <<ip_address(entry).ver, ip_address(entry).addr>>

\* C14: a block entry is emitted exactly when its first address lies in a
\* network of the index, whatever the index holds of the rest of the block;
\* an entry without '/' is emitted exactly when the entry itself, as an
\* address, lies in a network of the index.
C14_KeyIsFirstAddress ==
    pcB = "classified" =>
        \A i \in 1..Len(ip_batch) :
            LET entry == strip(ip_batch[i])
                index == IndexCover(WORKER_TREE[1][1])
            IN /\ IsBlock(entry) =>
                      (entry \in Range(batch_result.out) <=>
                           FirstAddress(entry) \in index)
               /\ (~HasSlash(entry) /\ entry # <<>>) =>
                      (entry \in Range(batch_result.out) <=>
                           (IsAddress(entry) /\ AddressOf(entry) \in index))

\* A block that is wider than every network of the index was emitted, and a
\* block with host bits set was emitted though the address written in it is
\* not its first address.
C14_Witness ==
    /\ pcB = "classified"
    /\ \E e \in Range(batch_result.out) :
           /\ IsBlock(e)
           /\ \A t \in WORKER_TREE[1][1] :
                  ip_network(e, FALSE).len < t.len
           /\ ~(Covered(ip_network(e, FALSE)) \subseteq IndexCover(WORKER_TREE[1][1]))
    /\ \E e \in Range(batch_result.out) :
           IsBlock(e) /\ ~ip_network(e, TRUE).ok

(***************************************************************************)
(* The optimizer's exceptions                                              *)
(***************************************************************************)

\* the strings of the input that are networks
ValidStrs == {t \in Range(network_strs) : ip_network(strip(t), TRUE).ok}

\* C15 as stated: collapse_networks returns for every sequence of strings;
\* what it returns covers the valid networks of the input, and it is the
\* empty list when no string is valid.
C15_CollapseNeverRaises ==
    pcC # "input" =>
        /\ ~collapsed.raised
        /\ OutputCover = ValidInputCover
        /\ ValidStrs = {} => collapsed.out = <<>>

(***************************************************************************)
(* The index of a worker process                                           *)
(***************************************************************************)

\* C16: a worker process that holds an index holds the one built from the
\* optimized networks of the country being processed, at every moment from
\* its initializer to the end of the pool; a worker that classifies a batch
\* holds an index, and every batch result is the classification of its
\* batch against that country's index.
C16_WorkerIndexOfItsCountry ==
    /\ \A w \in Procs :
           WORKER_TREE[w] # <<>> =>
               /\ WORKER_TREE[w] = init_worker(optimized_cidrs)
               /\ pool \in {"running", "broken"}
               /\ w <= optimal_workers
    /\ \A w \in Procs : worker_task[w] # 0 => WORKER_TREE[w] # <<>>
    /\ \A i \in 1..Len(batch_results) :
           batch_results[i] # <<>> =>
               /\ ~batch_results[i][1].raised
               /\ batch_results[i][1] =
                      process_ip_batch(init_worker(optimized_cidrs), ip_batches[i])

\* In the pool of the second country two worker processes classify a batch
\* each while a third has not run its initializer yet.
C16_Witness ==
    /\ country_idx = 2
    /\ pool = "running"
    /\ worker_task[1] # 0
    /\ worker_task[2] # 0
    /\ optimal_workers >= 3
    /\ WORKER_TREE[3] = <<>>
    /\ WORKER_TREE[1] # init_worker(<<>>)

(***************************************************************************)
(* One country at a time                                                   *)
(***************************************************************************)

\* a pool exists: its processes may run
PoolAlive ==
    \/ pool \in {"running", "broken"}
    \/ \E w \in Procs : WORKER_TREE[w] # <<>> \/ worker_task[w] # 0

\* the countries before position i are finished: each has its result and
\* its record, in configuration order, merged into the running set
FinishedBefore(i) ==
    /\ Len(all_country_results) = i - 1
    /\ Len(country_statistics) = i - 1
    /\ \A j \in 1..(i - 1) :
           /\ all_country_results[j][1] = country_configs[j][1]
           /\ country_statistics[j].iso_code = country_configs[j][1]
           /\ Range(all_country_results[j][3]) \subseteq all_filtered_ips

\* C17: a pool is alive only while the results of the current country are
\* collected; when a country's pool is about to be created no pool is alive,
\* no pool has been created for that country or a later one, and every
\* country before it is finished and merged, in configuration order.
C17_OneCountryAtATime ==
    /\ PoolAlive => (pc = "collect" /\ country_idx \in pools_created)
    /\ pc = "pool" => (~PoolAlive /\ country_idx \notin pools_created)
    /\ pc \in {"pool", "collect", "fallback", "write"} =>
           /\ country_idx \in 1..Len(country_configs)
           /\ FinishedBefore(country_idx)
           /\ \A j \in pools_created : j <= country_idx
    /\ pc \in {"combine", "done"} /\ input_ip_list # <<>> =>
           FinishedBefore(Len(country_configs) + 1)

\* The pool of the second country runs after the first country had its own
\* pool and its matches were merged.
C17_Witness ==
    /\ country_idx = 2
    /\ pool = "running"
    /\ pools_created = {1, 2}
    /\ all_country_results[1][3] # <<>>
    /\ \E w \in Procs : worker_task[w] # 0

(***************************************************************************)
(* The output file of a country                                            *)
(***************************************************************************)

\* the output file of the country at position j, if it has been written
FileOf(j) == {f \in files : f.name = output_filename_of(country_configs[j][1])}

\* an exception has left process_single_country for the country at
\* country_idx
Escaped == pc = "exit" /\ country_idx >= 1

\* C18: a country's output file exists only once the country's
\* classification is complete and holds the complete matched list; it is
\* written when every batch has been collected and the pool is gone, or
\* when the fallback pass is over.  When an exception leaves
\* process_single_country the country has no output file and the run ends
\* with status 1.
C18_FileAfterClassification ==
    /\ \A j \in 1..Len(country_configs) :
           FileOf(j) # {} =>
               /\ j < country_idx
               /\ j <= Len(all_country_results)
               /\ \A f \in FileOf(j) : f.lines = all_country_results[j][3]
    /\ pc = "write" =>
           /\ ~PoolAlive
           /\ path \in {"parallel", "fallback"}
           /\ path = "parallel" => collected = Len(ip_batches)
    /\ Escaped =>
           /\ exit_status = 1
           /\ FileOf(country_idx) = {}
           /\ Len(all_country_results) = country_idx - 1
           /\ combined_file = <<>>

\* The first country's file was written with its matches; the optimizer
\* raised for the second country and the run ended with status 1.
C18_Witness ==
    /\ Escaped
    /\ country_idx = 2
    /\ exit_status = 1
    /\ \E f \in FileOf(1) : f.lines # <<>>
    /\ FileOf(2) = {}

(***************************************************************************)
(* detect_country_configs                                                  *)
(*                                                                         *)
(* os.environ is a sequence of <<name, value>> pairs with distinct names,  *)
(* in iteration order.  A name is a sequence whose first element is its    *)
(* stem ("COUNTRY_ISO_CODE", "COUNTRY_NAME", ...) and whose other elements *)
(* are the characters after it; a value is a sequence of characters        *)
(* (a word without blanks may stand as one element).                       *)
(***************************************************************************)

\* str.upper(), on the letters the values use
upper_char(c) ==
    CASE c = "u" -> "U" [] c = "s" -> "S" [] c = "c" -> "C" [] c = "a" -> "A"
      [] OTHER -> c

upper(s) == [i \in 1..Len(s) |-> upper_char(s[i])]

\* iso_code_pattern.match(var_name) for ^COUNTRY_ISO_CODE(_)?(\d*)$: group 1
\* is the underscore, group 2 the digits.
iso_code_match(var_name) ==
    LET tail           == Tail(var_name)
        has_underscore == tail # <<>> /\ Head(tail) = "_"
        number_part    == IF has_underscore THEN Tail(tail) ELSE tail
    IN [matched |-> /\ Head(var_name) = "COUNTRY_ISO_CODE"
                    /\ \A i \in 1..Len(number_part) : IsDigit(number_part[i]),
        has_underscore |-> has_underscore,
        number_part |-> number_part]

\* env_vars.get(name_var, default)
env_get(env_vars, name_var, default) ==
    IF \E i \in 1..Len(env_vars) : env_vars[i][1] = name_var
    THEN env_vars[CHOOSE i \in 1..Len(env_vars) : env_vars[i][1] = name_var][2]
    ELSE default

\* The body of the loop over env_vars.items() for one variable: the list of
\* the configuration it contributes, empty when it is skipped.
config_of(env_vars, var_name, var_value) ==
    LET m        == iso_code_match(var_name)
        suffix   == m.number_part
        suffix_with_underscore == IF suffix = <<>> THEN <<>> ELSE <<"_">> \o suffix
        iso_code == upper(strip(var_value))
        name_var == <<"COUNTRY_NAME">> \o suffix_with_underscore
        country_name == strip(env_get(env_vars, name_var, <<"Unknown-">> \o iso_code))
    IN IF ~m.matched THEN <<>>
       ELSE IF m.has_underscore # (m.number_part # <<>>) THEN <<>>
       ELSE IF iso_code = <<>> THEN <<>>
       ELSE << <<iso_code, country_name, suffix>> >>

RECURSIVE countries_of(_, _)
countries_of(env_vars, rest) ==
    IF rest = <<>> THEN <<>>
    ELSE config_of(env_vars, Head(rest)[1], Head(rest)[2]) \o
         countries_of(env_vars, Tail(rest))

\* sort_key with the suffixes compared as strings (by their first digit).
sort_key_asString(country_tuple) ==
    IF country_tuple[3] = <<>> THEN <<0, 0>>
    ELSE <<1, DigitVal(country_tuple[3][1])>>

\* sort_key(country_tuple); the ValueError branch needs a suffix that is
\* not a number, which the pattern does not let through.
sort_key(country_tuple) ==
    IF country_tuple[3] = <<>> THEN <<0, 0>>
    ELSE <<1, int_of(country_tuple[3])>>

KeyLess(a, b) == a[1] < b[1] \/ (a[1] = b[1] /\ a[2] < b[2])

\* list.sort(key=sort_key): stable, an entry goes after those not above it.
RECURSIVE insert_sorted(_, _)
insert_sorted(sorted, c) ==
    IF sorted = <<>> THEN <<c>>
    ELSE IF KeyLess(sort_key(c), sort_key(Head(sorted)))
    THEN <<c>> \o sorted
    ELSE <<Head(sorted)>> \o insert_sorted(Tail(sorted), c)

RECURSIVE sort_countries(_, _)
sort_countries(sorted, countries) ==
    IF countries = <<>> THEN sorted
    ELSE sort_countries(insert_sorted(sorted, Head(countries)), Tail(countries))

detect_country_configs(env_vars) ==
    sort_countries(<<>>, countries_of(env_vars, env_vars))

\* Most variables in the environment.
MaxEnv == 3

IsoVar(tail) == <<"COUNTRY_ISO_CODE">> \o tail

NameVar(tail) == <<"COUNTRY_NAME">> \o tail

\* Variable names: the legacy one, numbered ones (10 after 2, 02 equal to
\* 2), an underscore without number, a number without underscore.
IsoTails ==
    {<<>>, <<"_", "2">>, <<"_", "1", "0">>, <<"_", "0", "2">>, <<"_">>, <<"2">>}

\* Values: a padded lower-case code, a blank.
IsoValues == {<<" ", "u", "s", " ">>, <<" ">>}

EnvUniverse ==
    {<<IsoVar(t), v>> : t \in IsoTails, v \in IsoValues} \cup
    {<<NameVar(t), <<" ", "Germany", " ">> >> :
        t \in {<<>>, <<"_", "1", "0">>, <<"_", "0", "2">>}} \cup
    {<< <<"PATH">>, <<"/", "x">> >>}

DistinctNames(env) ==
    \A i, j \in 1..Len(env) : i # j => env[i][1] # env[j][1]

DetectInit ==
    /\ environ \in {e \in BSeq(EnvUniverse, MaxEnv) : DistinctNames(e)}
    /\ detected = <<>>
    /\ pcD = "start"
    /\ CollapseIdle
    /\ BatchIdle
    /\ WORKER_TREE = NoTrees
    /\ MainIdle

Detect ==
    /\ pcD = "start"
    /\ detected' = detect_country_configs(environ)
    /\ pcD' = "detected"
    /\ UNCHANGED <<environ, collapseVars, batchVars, WORKER_TREE, mainVars>>

DetectNext == Detect

SpecDetect == DetectInit /\ [][DetectNext]_vars


\* the position in the environment of the variable a configuration comes
\* from: COUNTRY_ISO_CODE for an empty suffix, COUNTRY_ISO_CODE_<suffix> else
SourceVars(config) ==
    {i \in 1..Len(environ) :
        environ[i][1] = IsoVar(IF config[3] = <<>> THEN <<>> ELSE <<"_">> \o config[3])}

\* the positions of the COUNTRY_NAME variable with the configuration's suffix
NameVars(config) ==
    {i \in 1..Len(environ) :
        environ[i][1] = NameVar(IF config[3] = <<>> THEN <<>> ELSE <<"_">> \o config[3])}

IsUpper(s) == \A i \in 1..Len(s) : s[i] \notin {"u", "s", "c", "a"}

IsTrimmed(s) == s = <<>> \/ (s[1] # " " /\ s[Len(s)] # " ")

\* C19: every configuration returned has a non-empty, upper-case, trimmed
\* iso_code, which is the value of its COUNTRY_ISO_CODE variable; its name is
\* the (trimmed) value of the COUNTRY_NAME variable of the same suffix, or
\* 'Unknown-<ISO>' when there is none; the legacy entry comes first and the
\* numbered entries follow in ascending order of their suffix as a number.
C19_ConfigsNormalizedAndOrdered ==
    pcD = "detected" =>
        /\ \A k \in 1..Len(detected) :
               LET config == detected[k]
               IN /\ config[1] # <<>>
                  /\ IsUpper(config[1])
                  /\ IsTrimmed(config[1])
                  /\ \E i \in SourceVars(config) :
                         config[1] = upper(strip(environ[i][2]))
                  /\ \A i \in NameVars(config) : config[2] = strip(environ[i][2])
                  /\ NameVars(config) = {} => config[2] = <<"Unknown-">> \o config[1]
        /\ \A k, l \in 1..Len(detected) :
               k < l =>
                   /\ detected[l][3] # <<>>
                   /\ detected[k][3] # <<>> =>
                          int_of(detected[k][3]) <= int_of(detected[l][3])

\* The environment lists COUNTRY_ISO_CODE_10, its COUNTRY_NAME_10 and the
\* legacy COUNTRY_ISO_CODE; the legacy entry is returned first, with the
\* placeholder name, then entry 10 with its name.
C19_Witness ==
    /\ pcD = "detected"
    /\ Len(environ) = 3
    /\ environ[1][1] = IsoVar(<<"_", "1", "0">>)
    /\ Len(detected) = 2
    /\ detected[1] = << <<"U", "S">>, <<"Unknown-", "U", "S">>, <<>> >>
    /\ detected[2] = << <<"U", "S">>, <<"Germany">>, <<"1", "0">> >>

(***************************************************************************)
(* The order of the matched list                                           *)
(***************************************************************************)

\* the entries of the first k batches, in order
FirstBatches(k) == Concat(SubSeq(ip_batches, 1, k))

\* a batch after the next one to collect has its result while the next one
\* to collect has none: the workers finish out of submission order
FinishedOutOfOrder ==
    /\ collected + 1 <= Len(batch_results)
    /\ batch_results[collected + 1] = <<>>
    /\ \E i \in (collected + 2)..Len(batch_results) : batch_results[i] # <<>>

\* C20: while the results are collected the matched list is what the
\* sequential fallback pass returns for the batches collected so far, and on
\* parallel success it is, as a sequence, what that pass returns for the
\* whole input list: the matches in input order, whatever order the workers
\* finish in.
C20_ParallelInInputOrder ==
    /\ (pc = "collect" /\ collected <= Len(ip_batches)) =>
           filtered_ips = fallback(optimized_cidrs, FirstBatches(collected), <<>>)
    /\ (pc = "write" /\ path = "parallel") =>
           filtered_ips = fallback(optimized_cidrs, input_ip_list, <<>>)

\* A batch was collected with a match while a later batch, which also has a
\* match, is finished before the next one to collect.
C20_Witness ==
    /\ pc = "collect"
    /\ collected >= 1
    /\ filtered_ips # <<>>
    /\ FinishedOutOfOrder
    /\ \E i \in (collected + 2)..Len(batch_results) :
           batch_results[i] # <<>> /\ batch_results[i][1].out # <<>>

(***************************************************************************)
(* The reported number of matches                                          *)
(***************************************************************************)

\* the matched list process_single_country returned for the i-th country
ReturnedList(i) == all_country_results[i][3]

\* C21: for every country that has returned, on whichever path, the
\* reported ips_matched is the length of the returned matched list and is at
\* most the number of entries of the input list.
C21_MatchedCountWithinInput ==
    \A i \in 1..Len(country_statistics) :
        /\ country_statistics[i].ips_matched = Len(ReturnedList(i))
        /\ country_statistics[i].ips_matched <= Len(input_ip_list)

(***************************************************************************)
(* A failed write of a country's file                                      *)
(***************************************************************************)

\* the optimized set of the country at position i
OptimizedOf(i) ==
    collapse_networks(country_networks_of(geoip.rows, country_configs[i][1],
                                          country_configs[i][2]))

\* the country at position i was classified and its record names no output
\* file: the write of its file raised IOError
WriteFailed(i) ==
    /\ country_statistics[i].networks_optimized > 0
    /\ country_statistics[i].output_file = <<>>

\* C22: when the write of a country's file fails, the country's record has
\* no output file name, its matched entries (the entries of the input list
\* that the country's networks match) are returned and are in the combined
\* set, and the run goes on with the following countries: it does not end
\* with status 1 on account of the write, and when it reaches the combined
\* file every country has its record.
C22_WriteFailureAbsorbed ==
    /\ \A i \in 1..Len(country_statistics) :
           WriteFailed(i) =>
               /\ country_statistics[i].ips_matched = Len(ReturnedList(i))
               /\ Range(ReturnedList(i)) =
                      Range(fallback(OptimizedOf(i).out, input_ip_list, <<>>))
               /\ Range(ReturnedList(i)) \subseteq all_filtered_ips
               /\ \/ country_idx > i
                  \/ pc \in {"combine", "done"}
    /\ Escaped => OptimizedOf(country_idx).raised
    /\ (pc \in {"combine", "done"} /\ country_idx >= 1) =>
           /\ Len(country_statistics) = Len(country_configs)
           /\ Len(all_country_results) = Len(country_configs)
    /\ (pc = "done" /\ \E i \in 1..Len(country_statistics) : WriteFailed(i)) =>
           exit_status = 0

\* The write of the first country's file failed; its matches were returned
\* and are in the combined file, and the second country was classified after
\* it and has its file.
C22_Witness ==
    /\ pc = "done"
    /\ Len(country_statistics) = 2
    /\ WriteFailed(1)
    /\ FileOf(1) = {}
    /\ ReturnedList(1) # <<>>
    /\ combined_file # <<>>
    /\ Range(ReturnedList(1)) \subseteq Range(combined_file[1])
    /\ country_statistics[2].ips_matched > 0
    /\ country_statistics[2].output_file # <<>>
    /\ FileOf(2) # {}

====
